---- MODULE Spec2Model ----
(***************************************************************************)
(* A model of sample-app/src/app.py: a Flask application with four GET     *)
(* routes, an after_request hook that sets four security headers, a 404    *)
(* and a 500 error handler, and a __main__ block that starts the server.   *)
(*                                                                         *)
(* A request path is the sequence of its segments after the leading "/":   *)
(*   "/" = <<"">>, "/health" = <<"health">>, "/api/data" = <<"api","data">>*)
(*   "/api//data" = <<"api", "", "data">>, "/health/" = <<"health", "">>.  *)
(* A response is the Response object the application produces: status,     *)
(* headers (an ordered list of <<name, value>> pairs) and body.  For a     *)
(* HEAD request the WSGI layer sends the status and headers of that object *)
(* and leaves the body out.                                                *)
(*                                                                         *)
(* Four specifications:                                                    *)
(*   Spec      requests served by the application object (lines 18-85)     *)
(*   SpecEnv   the views that read the environment, under every environment*)
(*   SpecMain  the process entry (lines 87-93)                             *)
(*   SpecInj   add_security_headers applied to arbitrary responses         *)
(***************************************************************************)
EXTENDS Integers, Sequences, FiniteSets, TLC

VARIABLES environ, requests, log, server, probe

vars == <<environ, requests, log, server, probe>>

(***************************************************************************)
(* Bounds of the model.                                                    *)
(***************************************************************************)
MaxRequests == 2
MaxPortLen == 3
MaxHeaders == 2

(***************************************************************************)
(* Values that stand for "nothing".                                        *)
(***************************************************************************)
NoFault == "<no fault>"
NoResponse == [status |-> 0, headers |-> <<>>, body |-> [kind |-> "none", value |-> ""]]

(***************************************************************************)
(* os.getenv(key, default): the value of the variable when it is set,      *)
(* the default otherwise.                                                  *)
(***************************************************************************)
getenv(key, default) ==
    IF key \in DOMAIN environ THEN environ[key] ELSE default

(***************************************************************************)
(* datetime.utcnow().isoformat().  The clock counts microseconds; the      *)
(* fractional part is left out of the text when it is zero.                *)
(***************************************************************************)
MicrosPerSecond == 1000000

isoformat(t) ==
    IF t % MicrosPerSecond = 0
    THEN [seconds |-> t \div MicrosPerSecond]
    ELSE [seconds |-> t \div MicrosPerSecond, micros |-> t % MicrosPerSecond]

(***************************************************************************)
(* werkzeug Headers: names compare without regard to case.                 *)
(***************************************************************************)
lower(name) ==
    CASE name \in {"X-Content-Type-Options", "x-content-type-options"} -> "x-content-type-options"
      [] name \in {"X-Frame-Options", "x-frame-options"} -> "x-frame-options"
      [] name \in {"X-XSS-Protection", "x-xss-protection"} -> "x-xss-protection"
      [] name \in {"Strict-Transport-Security", "strict-transport-security"} -> "strict-transport-security"
      [] name \in {"Content-Type", "content-type"} -> "content-type"
      [] name \in {"Allow", "allow"} -> "allow"
      [] name \in {"Location", "location"} -> "location"

RECURSIVE DropKey(_, _)
DropKey(list, key) ==
    IF list = <<>> THEN <<>>
    ELSE IF lower(Head(list)[1]) = lower(key) THEN DropKey(Tail(list), key)
         ELSE <<Head(list)>> \o DropKey(Tail(list), key)

FirstIndex(list, key) ==
    LET hits == {i \in 1..Len(list) : lower(list[i][1]) = lower(key)}
    IN IF hits = {} THEN 0 ELSE CHOOSE i \in hits : \A j \in hits : i <= j

(* response.headers[key] = value, i.e. Headers.set: the first entry of that
   name is replaced in place, later entries of that name are removed; when
   there is none the entry is appended. *)
HeadersSet(list, key, value) ==
    LET idx == FirstIndex(list, key)
    IN IF idx = 0 THEN Append(list, <<key, value>>)
       ELSE SubSeq(list, 1, idx - 1) \o <<(<<key, value>>)>>
            \o DropKey(SubSeq(list, idx + 1, Len(list)), key)

(* Headers.add: appends, whatever the list holds. *)
HeadersAdd(list, key, value) == Append(list, <<key, value>>)

(***************************************************************************)
(* add_security_headers, the after_request hook.                           *)
(***************************************************************************)
add_security_headers_appending(response) ==
    [response EXCEPT !.headers =
        HeadersAdd(HeadersAdd(HeadersAdd(HeadersAdd(@,
            "X-Content-Type-Options", "nosniff"),
            "X-Frame-Options", "DENY"),
            "X-XSS-Protection", "1; mode=block"),
            "Strict-Transport-Security", "max-age=31536000; includeSubDomains")]

add_security_headers_success_only(response) ==
    IF response.status = 200
    THEN [response EXCEPT !.headers =
        HeadersSet(HeadersSet(HeadersSet(HeadersSet(@,
            "X-Content-Type-Options", "nosniff"),
            "X-Frame-Options", "DENY"),
            "X-XSS-Protection", "1; mode=block"),
            "Strict-Transport-Security", "max-age=31536000; includeSubDomains")]
    ELSE response

add_security_headers(response) ==
    [response EXCEPT !.headers =
        HeadersSet(HeadersSet(HeadersSet(HeadersSet(@,
            "X-Content-Type-Options", "nosniff"),
            "X-Frame-Options", "DENY"),
            "X-XSS-Protection", "1; mode=block"),
            "Strict-Transport-Security", "max-age=31536000; includeSubDomains")]

(***************************************************************************)
(* jsonify(payload), status: a JSON response.                              *)
(***************************************************************************)
jsonify(payload, status) ==
    [status |-> status,
     headers |-> <<(<<"Content-Type", "application/json">>)>>,
     body |-> [kind |-> "json", value |-> payload]]

(***************************************************************************)
(* The view functions.  t is the reading of the clock the view takes.      *)
(***************************************************************************)
health_check_version_from_environment(t) ==
    jsonify([status |-> "healthy",
             timestamp |-> isoformat(t),
             version |-> getenv("ENVIRONMENT", "1.0.0")], 200)

health_check(t) ==
    jsonify([status |-> "healthy",
             timestamp |-> isoformat(t),
             version |-> getenv("APP_VERSION", "1.0.0")], 200)

readiness_check(t) ==
    jsonify([status |-> "ready",
             timestamp |-> isoformat(t)], 200)

index ==
    jsonify([message |-> "Secure CI/CD Pipeline Demo",
             version |-> getenv("APP_VERSION", "1.0.0"),
             environment |-> getenv("ENVIRONMENT", "development")], 200)

get_data_two_items(t) ==
    jsonify([data |-> <<[id |-> 1, name |-> "Item 1"],
                        [id |-> 2, name |-> "Item 2"]>>,
             timestamp |-> isoformat(t)], 200)

get_data_counting(t) ==
    jsonify([data |-> <<[id |-> 1, name |-> "Item 1"],
                        [id |-> 2, name |-> "Item 2"],
                        [id |-> 3, name |-> "Item 3"]>>,
             timestamp |-> isoformat(t + Len(log))], 200)

get_data(t) ==
    jsonify([data |-> <<[id |-> 1, name |-> "Item 1"],
                        [id |-> 2, name |-> "Item 2"],
                        [id |-> 3, name |-> "Item 3"]>>,
             timestamp |-> isoformat(t)], 200)

(* logger.info("Data endpoint accessed"), the first statement of get_data.
   req is the request the line belongs to. *)
LogLine(level, via, msg, exc, req) ==
    [level |-> level, via |-> via, msg |-> msg, exc |-> exc, req |-> req]

get_data_log_twice(req) ==
    << LogLine("INFO", "logger", "Data endpoint accessed", NoFault, req),
       LogLine("INFO", "logger", "Data endpoint accessed", NoFault, req) >>

get_data_log(req) ==
    <<LogLine("INFO", "logger", "Data endpoint accessed", NoFault, req)>>

(***************************************************************************)
(* The error handlers.                                                     *)
(***************************************************************************)
not_found ==
    jsonify([error |-> "Not found", status |-> 404], 404)

(* The 500 handler is given an InternalServerError that wraps the fault;
   its text is the fixed description of that error, not the fault's. *)
InternalServerError(fault) ==
    [code |-> 500,
     name |-> "Internal Server Error",
     description |-> "The server encountered an internal error and was unable to complete your request.",
     original_exception |-> fault]

Str(error) == "500 Internal Server Error: " \o error.description

internal_error_log(error, req) ==
    <<LogLine("ERROR", "logger", "Internal error: " \o Str(error), NoFault, req)>>

internal_error_leaking(error) ==
    jsonify([error |-> error.original_exception, status |-> 500], 500)

internal_error(error) ==
    jsonify([error |-> "Internal server error", status |-> 500], 500)

(***************************************************************************)
(* Routing.  The URL map holds the four rules the @app.route decorators    *)
(* register and the rule /static/<path:filename> that Flask(__name__)      *)
(* registers.  A rule registered for GET also answers HEAD and OPTIONS.    *)
(***************************************************************************)
RouteMethods(methods) ==
    methods \cup (IF "GET" \in methods THEN {"HEAD"} ELSE {}) \cup {"OPTIONS"}

Rule(segments, endpoint, methods) ==
    [segments |-> segments, endpoint |-> endpoint, methods |-> RouteMethods(methods)]

url_map ==
    { Rule(<<"health">>, "health_check", {"GET"}),
      Rule(<<"ready">>, "readiness_check", {"GET"}),
      Rule(<<"">>, "index", {"GET"}),
      Rule(<<"api", "data">>, "get_data", {"GET"}),
      Rule(<<"static", "<path:filename>">>, "static", {"GET"}) }

(* No static folder comes with the application. *)
StaticFiles == {}

RuleMatches(rule, path) ==
    IF rule.endpoint = "static"
    THEN Len(path) >= 2 /\ path[1] = "static" /\ path[2] # ""
    ELSE path = rule.segments

(* re.sub("/{2,}?", "/", path).  The quantifier is not greedy: each match
   is exactly two slashes, so a run of k slashes becomes a run of (k+1)/2.
   An empty segment that another segment follows is the pair of slashes
   around it: the pair becomes one slash, and the segment after it is kept
   as it is, its slash being part of the match. *)
RECURSIVE MergeSlashes(_)
MergeSlashes(path) ==
    IF Len(path) <= 1 THEN path
    ELSE IF Head(path) = "" THEN <<path[2]>> \o MergeSlashes(Tail(Tail(path)))
         ELSE <<Head(path)>> \o MergeSlashes(Tail(path))

RECURSIVE PathText(_)
PathText(path) ==
    IF path = <<>> THEN ""
    ELSE "/" \o Head(path) \o PathText(Tail(path))

AllowText(methods) ==
    IF methods = {"GET", "HEAD", "OPTIONS"} THEN "GET, HEAD, OPTIONS"
    ELSE IF methods = {"GET", "OPTIONS"} THEN "GET, OPTIONS"
    ELSE "GET"

(* "/" + path_info.lstrip("/"): the slashes the path begins with become
   one. *)
RECURSIVE LStripSlashes(_)
LStripSlashes(path) ==
    IF Len(path) > 1 /\ Head(path) = "" THEN LStripSlashes(Tail(path))
    ELSE path

(* MapAdapter.match (werkzeug 2.2 and later): the path is taken without
   the slashes it begins with but one; the result is the rule for the path
   and method; failing that a redirect to the path with its slashes merged,
   MethodNotAllowed when some rule has the path under another method,
   NotFound otherwise. *)
Match(method, path) ==
    LET part == LStripSlashes(path)
        merged == MergeSlashes(part)
        hits(p) == {r \in url_map : RuleMatches(r, p)}
        found(p) == {r \in hits(p) : method \in r.methods}
        have_match_for == UNION {r.methods : r \in hits(part) \cup hits(merged)}
    IN IF found(part) # {}
       THEN [kind |-> "rule", endpoint |-> (CHOOSE r \in found(part) : TRUE).endpoint,
             allow |-> (CHOOSE r \in found(part) : TRUE).methods, to |-> part]
       ELSE IF found(merged) # {}
       THEN [kind |-> "redirect", endpoint |-> "", allow |-> {}, to |-> merged]
       ELSE IF have_match_for # {}
       THEN [kind |-> "method_not_allowed", endpoint |-> "", allow |-> have_match_for, to |-> part]
       ELSE [kind |-> "not_found", endpoint |-> "", allow |-> {}, to |-> part]

(* The responses the router makes itself. *)
HtmlResponse(status, text, extra) ==
    [status |-> status,
     headers |-> <<(<<"Content-Type", "text/html; charset=utf-8">>)>> \o extra,
     body |-> [kind |-> "html", value |-> text]]

make_default_options_response(allow) ==
    [status |-> 200,
     headers |-> << <<"Content-Type", "text/html; charset=utf-8">>,
                    <<"Allow", AllowText(allow)>> >>,
     body |-> [kind |-> "empty", value |-> ""]]

MethodNotAllowed(allow) ==
    HtmlResponse(405, "405 Method Not Allowed: The method is not allowed for the requested URL.",
                 <<(<<"Allow", AllowText(allow)>>)>>)

(* The Location of the redirect is the URL of the path with its slashes
   merged; the model writes the path of that URL. *)
RequestRedirect(to) ==
    HtmlResponse(308, "Redirecting...", <<(<<"Location", PathText(to)>>)>>)

(* The views that call datetime.utcnow(). *)
ClockReaders == {"health_check", "readiness_check", "get_data"}

(* The view a request runs, "" when it runs none. *)
ViewOf(method, path) ==
    LET m == Match(method, path)
    IN IF m.kind = "rule" /\ method # "OPTIONS" THEN m.endpoint ELSE ""

(***************************************************************************)
(* Flask.handle_exception: the fault is logged with its traceback, and     *)
(* the 500 handler is called with an InternalServerError wrapping it.      *)
(***************************************************************************)
log_exception(method, path, fault, req) ==
    <<LogLine("ERROR", "app.logger",
              "Exception on " \o PathText(path) \o " [" \o method \o "]", fault, req)>>

(***************************************************************************)
(* Flask.full_dispatch_request, before the after_request hook: the         *)
(* response to a request handled at clock reading t, the view raising      *)
(* fault (NoFault: it returns).                                            *)
(***************************************************************************)
dispatch_request(method, path, t, fault) ==
    LET m == Match(method, path)
        view == ViewOf(method, path)
    IN CASE m.kind = "not_found" -> not_found
         [] m.kind = "method_not_allowed" -> MethodNotAllowed(m.allow)
         [] m.kind = "redirect" -> RequestRedirect(m.to)
         [] m.kind = "rule" /\ method = "OPTIONS" -> make_default_options_response(m.allow)
         [] view = "static" ->
                IF path \in StaticFiles
                THEN [status |-> 200, headers |-> <<>>, body |-> [kind |-> "file", value |-> ""]]
                ELSE not_found
         [] view # "" /\ view # "static" /\ fault # NoFault ->
                internal_error(InternalServerError(fault))
         [] view = "health_check" /\ fault = NoFault -> health_check(t)
         [] view = "readiness_check" /\ fault = NoFault -> readiness_check(t)
         [] view = "index" /\ fault = NoFault -> index
         [] view = "get_data" /\ fault = NoFault -> get_data(t)

(* Flask.wsgi_app: dispatch, then the after_request hook on whatever
   response came of it. *)
wsgi_app(method, path, t, fault) ==
    add_security_headers(dispatch_request(method, path, t, fault))

(***************************************************************************)
(* The inputs: request paths and lines, the faults a view may raise,       *)
(* the environments the process may be started in.                         *)
(***************************************************************************)
Paths ==
    { <<"health">>, <<"ready">>, <<"">>, <<"api", "data">>,
      <<"nonexistent">>, <<"health", "">>, <<"", "">>, <<"api", "", "data">>,
      <<"api", "", "", "data">>, <<"static", "app.js">> }

Faults == {"ZeroDivisionError: division by zero", "KeyError: 'secret'"}

AppEnvNames == {"APP_VERSION", "ENVIRONMENT"}
AppEnvValues == {"2.3.1", "production"}
AppEnvirons ==
    { e \in UNION { [S -> AppEnvValues] : S \in SUBSET AppEnvNames } :
        /\ "APP_VERSION" \in DOMAIN e => e["APP_VERSION"] = "2.3.1"
        /\ "ENVIRONMENT" \in DOMAIN e => e["ENVIRONMENT"] = "production" }

(* The readings datetime.utcnow() may give, in microseconds: one within a
   second and one on a full second. *)
ClockStart == MicrosPerSecond - 1
Times == {ClockStart, ClockStart + 1}

(* The request lines: every path under GET; POST on a route, on a path
   without a route and on a route's path with a slash repeated; HEAD on a
   route; OPTIONS on a route and on a route's path with a slash repeated. *)
RequestLines ==
    ({"GET"} \X Paths)
        \cup ({"POST"} \X {<<"health">>, <<"nonexistent">>, <<"api", "", "data">>})
        \cup ({"HEAD"} \X {<<"api", "data">>})
        \cup ({"OPTIONS"} \X {<<"health">>, <<"api", "", "data">>})

NotStarted == [state |-> "not started", host |-> "", port |-> 0, debug |-> FALSE]
NoProbe == [stage |-> "none", given |-> NoResponse, once |-> NoResponse, twice |-> NoResponse]

(***************************************************************************)
(* Spec: requests served by the application.  Requests are handled by      *)
(* concurrent threads.  Every write to the log is a step of its own, so a  *)
(* handling that writes to the log takes several steps and other requests  *)
(* run in between; what a handling does between two writes is local to it. *)
(* The clock is an input of each handling.                                 *)
(***************************************************************************)
ServedEnvirons == {e \in AppEnvirons : DOMAIN e \in {{}, AppEnvNames}}

Init ==
    /\ environ \in ServedEnvirons
    /\ requests = <<>>
    /\ log = <<>>
    /\ server = NotStarted
    /\ probe = NoProbe

(* A request as it arrives, routed (the request context matches the URL
   before anything is dispatched).  Of a request the model keeps the fault
   its view raised, the clock reading its view took (0: it took none) and
   the response. *)
NewRequest(method, path) ==
    [method |-> method, path |-> path, view |-> ViewOf(method, path),
     pc |-> "received", fault |-> NoFault, at |-> 0, response |-> NoResponse]

LoggingViews == {"get_data"}

(* No view of app.py raises by itself; a fault is an input.  It is injected
   into one view that writes no log line of its own and into the one that
   does. *)
FaultingViews == {"health_check", "get_data"}

(* A request that writes nothing other threads see is handled in one step:
   the router's own answer, the 404 handler or the result of a view that
   returns, then the after_request hook.  t is what datetime.utcnow() gives
   the view. *)
Respond(method, path, t) ==
    LET r == NewRequest(method, path)
    IN /\ Len(requests) < MaxRequests
       /\ r.view \notin LoggingViews
       \* a handling that does not use the clock is taken once, not once per reading
       /\ t # ClockStart => r.view \in ClockReaders
       /\ requests' = Append(requests,
              [r EXCEPT !.pc = "done",
                        !.at = IF r.view \in ClockReaders THEN t ELSE 0,
                        !.response = wsgi_app(method, path, t, NoFault)])
       /\ UNCHANGED <<environ, log, server, probe>>

(* A request whose view raises fault before it wrote anything:
   Flask.handle_exception logs the fault. *)
ViewRaises(method, path, fault) ==
    LET r == NewRequest(method, path)
    IN /\ Len(requests) < MaxRequests
       /\ r.view \in FaultingViews \ LoggingViews
       /\ log' = log \o log_exception(method, path, fault, Len(requests) + 1)
       /\ requests' = Append(requests, [r EXCEPT !.pc = "excepted", !.fault = fault])
       /\ UNCHANGED <<environ, server, probe>>

(* A request for get_data: the first statement of the view writes the log
   line. *)
EnterGetData(method, path) ==
    LET r == NewRequest(method, path)
    IN /\ Len(requests) < MaxRequests
       /\ r.view = "get_data"
       /\ log' = log \o get_data_log(Len(requests) + 1)
       /\ requests' = Append(requests, [r EXCEPT !.pc = "logged"])
       /\ UNCHANGED <<environ, server, probe>>

(* get_data returns its response and the after_request hook runs. *)
FinishGetData(i, t) ==
    LET r == requests[i]
    IN /\ r.pc = "logged"
       /\ requests' = [requests EXCEPT ![i] =
              [r EXCEPT !.pc = "done", !.at = t,
                        !.response = wsgi_app(r.method, r.path, t, NoFault)]]
       /\ UNCHANGED <<environ, log, server, probe>>

(* get_data raises fault after its log line: Flask.handle_exception logs
   the fault. *)
GetDataRaises(i, fault) ==
    LET r == requests[i]
    IN /\ r.pc = "logged"
       /\ log' = log \o log_exception(r.method, r.path, fault, i)
       /\ requests' = [requests EXCEPT ![i] = [r EXCEPT !.pc = "excepted", !.fault = fault]]
       /\ UNCHANGED <<environ, server, probe>>

(* internal_error starts: its first statement writes its log line. *)
EnterInternalError(i) ==
    /\ requests[i].pc = "excepted"
    /\ log' = log \o internal_error_log(InternalServerError(requests[i].fault), i)
    /\ requests' = [requests EXCEPT ![i].pc = "handling"]
    /\ UNCHANGED <<environ, server, probe>>

(* internal_error returns its response and the after_request hook runs. *)
FinishInternalError(i) ==
    LET r == requests[i]
    IN /\ r.pc = "handling"
       /\ requests' = [requests EXCEPT ![i] =
              [r EXCEPT !.pc = "done",
                        !.response = wsgi_app(r.method, r.path, 0, r.fault)]]
       /\ UNCHANGED <<environ, log, server, probe>>

Next ==
    \/ \E line \in RequestLines, t \in Times : Respond(line[1], line[2], t)
    \/ \E line \in RequestLines, fault \in Faults : ViewRaises(line[1], line[2], fault)
    \/ \E line \in RequestLines : EnterGetData(line[1], line[2])
    \/ \E i \in 1..Len(requests), t \in Times : FinishGetData(i, t)
    \/ \E i \in 1..Len(requests), fault \in Faults : GetDataRaises(i, fault)
    \/ \E i \in 1..Len(requests) : EnterInternalError(i)
    \/ \E i \in 1..Len(requests) : FinishInternalError(i)

Spec == Init /\ [][Next]_vars

(***************************************************************************)
(* SpecEnv: requests for the routes whose views read the environment or    *)
(* the clock only, under every environment.                                *)
(***************************************************************************)
EnvLines == {"GET"} \X {<<"health">>, <<"ready">>, <<"">>}

InitEnv ==
    /\ environ \in AppEnvirons
    /\ requests = <<>>
    /\ log = <<>>
    /\ server = NotStarted
    /\ probe = NoProbe

NextEnv ==
    \/ \E line \in EnvLines, t \in Times : Respond(line[1], line[2], t)
    \/ \E line \in EnvLines, fault \in Faults : ViewRaises(line[1], line[2], fault)
    \/ \E i \in 1..Len(requests) : EnterInternalError(i)
    \/ \E i \in 1..Len(requests) : FinishInternalError(i)

SpecEnv == InitEnv /\ [][NextEnv]_vars

(***************************************************************************)
(* SpecMain: the process entry.  Here the value of an environment variable *)
(* is the sequence of its characters.                                      *)
(***************************************************************************)
(* A character is itself when it is printable ASCII and "U+" and its code
   point otherwise: "U+0009" is the tab, "U+0663" ARABIC-INDIC DIGIT THREE. *)

(* The characters int() drops around the number: the ASCII blanks and the
   characters beyond ASCII that str.isspace accepts.  The separators U+001C
   to U+001F, which str.isspace accepts too, are not dropped. *)
Whitespace ==
    { "U+0009", "U+000A", "U+000B", "U+000C", "U+000D",
      " ", "U+0085", "U+00A0", "U+1680", "U+2000",
      "U+2001", "U+2002", "U+2003", "U+2004", "U+2005", "U+2006", "U+2007",
      "U+2008", "U+2009", "U+200A", "U+2028", "U+2029", "U+202F", "U+205F",
      "U+3000" }

(* The decimal digits (Unicode category Nd, Unicode 14.0.0) of value v. *)
DigitsOf(v) ==
    CASE v = 0 ->
           { "0", "U+0660", "U+06F0", "U+07C0", "U+0966", "U+09E6",
             "U+0A66", "U+0AE6", "U+0B66", "U+0BE6", "U+0C66", "U+0CE6",
             "U+0D66", "U+0DE6", "U+0E50", "U+0ED0", "U+0F20", "U+1040",
             "U+1090", "U+17E0", "U+1810", "U+1946", "U+19D0", "U+1A80",
             "U+1A90", "U+1B50", "U+1BB0", "U+1C40", "U+1C50", "U+A620",
             "U+A8D0", "U+A900", "U+A9D0", "U+A9F0", "U+AA50", "U+ABF0",
             "U+FF10", "U+104A0", "U+10D30", "U+11066", "U+110F0",
             "U+11136", "U+111D0", "U+112F0", "U+11450", "U+114D0",
             "U+11650", "U+116C0", "U+11730", "U+118E0", "U+11950",
             "U+11C50", "U+11D50", "U+11DA0", "U+16A60", "U+16AC0",
             "U+16B50", "U+1D7CE", "U+1D7D8", "U+1D7E2", "U+1D7EC",
             "U+1D7F6", "U+1E140", "U+1E2F0", "U+1E950", "U+1FBF0" }
      [] v = 1 ->
           { "1", "U+0661", "U+06F1", "U+07C1", "U+0967", "U+09E7",
             "U+0A67", "U+0AE7", "U+0B67", "U+0BE7", "U+0C67", "U+0CE7",
             "U+0D67", "U+0DE7", "U+0E51", "U+0ED1", "U+0F21", "U+1041",
             "U+1091", "U+17E1", "U+1811", "U+1947", "U+19D1", "U+1A81",
             "U+1A91", "U+1B51", "U+1BB1", "U+1C41", "U+1C51", "U+A621",
             "U+A8D1", "U+A901", "U+A9D1", "U+A9F1", "U+AA51", "U+ABF1",
             "U+FF11", "U+104A1", "U+10D31", "U+11067", "U+110F1",
             "U+11137", "U+111D1", "U+112F1", "U+11451", "U+114D1",
             "U+11651", "U+116C1", "U+11731", "U+118E1", "U+11951",
             "U+11C51", "U+11D51", "U+11DA1", "U+16A61", "U+16AC1",
             "U+16B51", "U+1D7CF", "U+1D7D9", "U+1D7E3", "U+1D7ED",
             "U+1D7F7", "U+1E141", "U+1E2F1", "U+1E951", "U+1FBF1" }
      [] v = 2 ->
           { "2", "U+0662", "U+06F2", "U+07C2", "U+0968", "U+09E8",
             "U+0A68", "U+0AE8", "U+0B68", "U+0BE8", "U+0C68", "U+0CE8",
             "U+0D68", "U+0DE8", "U+0E52", "U+0ED2", "U+0F22", "U+1042",
             "U+1092", "U+17E2", "U+1812", "U+1948", "U+19D2", "U+1A82",
             "U+1A92", "U+1B52", "U+1BB2", "U+1C42", "U+1C52", "U+A622",
             "U+A8D2", "U+A902", "U+A9D2", "U+A9F2", "U+AA52", "U+ABF2",
             "U+FF12", "U+104A2", "U+10D32", "U+11068", "U+110F2",
             "U+11138", "U+111D2", "U+112F2", "U+11452", "U+114D2",
             "U+11652", "U+116C2", "U+11732", "U+118E2", "U+11952",
             "U+11C52", "U+11D52", "U+11DA2", "U+16A62", "U+16AC2",
             "U+16B52", "U+1D7D0", "U+1D7DA", "U+1D7E4", "U+1D7EE",
             "U+1D7F8", "U+1E142", "U+1E2F2", "U+1E952", "U+1FBF2" }
      [] v = 3 ->
           { "3", "U+0663", "U+06F3", "U+07C3", "U+0969", "U+09E9",
             "U+0A69", "U+0AE9", "U+0B69", "U+0BE9", "U+0C69", "U+0CE9",
             "U+0D69", "U+0DE9", "U+0E53", "U+0ED3", "U+0F23", "U+1043",
             "U+1093", "U+17E3", "U+1813", "U+1949", "U+19D3", "U+1A83",
             "U+1A93", "U+1B53", "U+1BB3", "U+1C43", "U+1C53", "U+A623",
             "U+A8D3", "U+A903", "U+A9D3", "U+A9F3", "U+AA53", "U+ABF3",
             "U+FF13", "U+104A3", "U+10D33", "U+11069", "U+110F3",
             "U+11139", "U+111D3", "U+112F3", "U+11453", "U+114D3",
             "U+11653", "U+116C3", "U+11733", "U+118E3", "U+11953",
             "U+11C53", "U+11D53", "U+11DA3", "U+16A63", "U+16AC3",
             "U+16B53", "U+1D7D1", "U+1D7DB", "U+1D7E5", "U+1D7EF",
             "U+1D7F9", "U+1E143", "U+1E2F3", "U+1E953", "U+1FBF3" }
      [] v = 4 ->
           { "4", "U+0664", "U+06F4", "U+07C4", "U+096A", "U+09EA",
             "U+0A6A", "U+0AEA", "U+0B6A", "U+0BEA", "U+0C6A", "U+0CEA",
             "U+0D6A", "U+0DEA", "U+0E54", "U+0ED4", "U+0F24", "U+1044",
             "U+1094", "U+17E4", "U+1814", "U+194A", "U+19D4", "U+1A84",
             "U+1A94", "U+1B54", "U+1BB4", "U+1C44", "U+1C54", "U+A624",
             "U+A8D4", "U+A904", "U+A9D4", "U+A9F4", "U+AA54", "U+ABF4",
             "U+FF14", "U+104A4", "U+10D34", "U+1106A", "U+110F4",
             "U+1113A", "U+111D4", "U+112F4", "U+11454", "U+114D4",
             "U+11654", "U+116C4", "U+11734", "U+118E4", "U+11954",
             "U+11C54", "U+11D54", "U+11DA4", "U+16A64", "U+16AC4",
             "U+16B54", "U+1D7D2", "U+1D7DC", "U+1D7E6", "U+1D7F0",
             "U+1D7FA", "U+1E144", "U+1E2F4", "U+1E954", "U+1FBF4" }
      [] v = 5 ->
           { "5", "U+0665", "U+06F5", "U+07C5", "U+096B", "U+09EB",
             "U+0A6B", "U+0AEB", "U+0B6B", "U+0BEB", "U+0C6B", "U+0CEB",
             "U+0D6B", "U+0DEB", "U+0E55", "U+0ED5", "U+0F25", "U+1045",
             "U+1095", "U+17E5", "U+1815", "U+194B", "U+19D5", "U+1A85",
             "U+1A95", "U+1B55", "U+1BB5", "U+1C45", "U+1C55", "U+A625",
             "U+A8D5", "U+A905", "U+A9D5", "U+A9F5", "U+AA55", "U+ABF5",
             "U+FF15", "U+104A5", "U+10D35", "U+1106B", "U+110F5",
             "U+1113B", "U+111D5", "U+112F5", "U+11455", "U+114D5",
             "U+11655", "U+116C5", "U+11735", "U+118E5", "U+11955",
             "U+11C55", "U+11D55", "U+11DA5", "U+16A65", "U+16AC5",
             "U+16B55", "U+1D7D3", "U+1D7DD", "U+1D7E7", "U+1D7F1",
             "U+1D7FB", "U+1E145", "U+1E2F5", "U+1E955", "U+1FBF5" }
      [] v = 6 ->
           { "6", "U+0666", "U+06F6", "U+07C6", "U+096C", "U+09EC",
             "U+0A6C", "U+0AEC", "U+0B6C", "U+0BEC", "U+0C6C", "U+0CEC",
             "U+0D6C", "U+0DEC", "U+0E56", "U+0ED6", "U+0F26", "U+1046",
             "U+1096", "U+17E6", "U+1816", "U+194C", "U+19D6", "U+1A86",
             "U+1A96", "U+1B56", "U+1BB6", "U+1C46", "U+1C56", "U+A626",
             "U+A8D6", "U+A906", "U+A9D6", "U+A9F6", "U+AA56", "U+ABF6",
             "U+FF16", "U+104A6", "U+10D36", "U+1106C", "U+110F6",
             "U+1113C", "U+111D6", "U+112F6", "U+11456", "U+114D6",
             "U+11656", "U+116C6", "U+11736", "U+118E6", "U+11956",
             "U+11C56", "U+11D56", "U+11DA6", "U+16A66", "U+16AC6",
             "U+16B56", "U+1D7D4", "U+1D7DE", "U+1D7E8", "U+1D7F2",
             "U+1D7FC", "U+1E146", "U+1E2F6", "U+1E956", "U+1FBF6" }
      [] v = 7 ->
           { "7", "U+0667", "U+06F7", "U+07C7", "U+096D", "U+09ED",
             "U+0A6D", "U+0AED", "U+0B6D", "U+0BED", "U+0C6D", "U+0CED",
             "U+0D6D", "U+0DED", "U+0E57", "U+0ED7", "U+0F27", "U+1047",
             "U+1097", "U+17E7", "U+1817", "U+194D", "U+19D7", "U+1A87",
             "U+1A97", "U+1B57", "U+1BB7", "U+1C47", "U+1C57", "U+A627",
             "U+A8D7", "U+A907", "U+A9D7", "U+A9F7", "U+AA57", "U+ABF7",
             "U+FF17", "U+104A7", "U+10D37", "U+1106D", "U+110F7",
             "U+1113D", "U+111D7", "U+112F7", "U+11457", "U+114D7",
             "U+11657", "U+116C7", "U+11737", "U+118E7", "U+11957",
             "U+11C57", "U+11D57", "U+11DA7", "U+16A67", "U+16AC7",
             "U+16B57", "U+1D7D5", "U+1D7DF", "U+1D7E9", "U+1D7F3",
             "U+1D7FD", "U+1E147", "U+1E2F7", "U+1E957", "U+1FBF7" }
      [] v = 8 ->
           { "8", "U+0668", "U+06F8", "U+07C8", "U+096E", "U+09EE",
             "U+0A6E", "U+0AEE", "U+0B6E", "U+0BEE", "U+0C6E", "U+0CEE",
             "U+0D6E", "U+0DEE", "U+0E58", "U+0ED8", "U+0F28", "U+1048",
             "U+1098", "U+17E8", "U+1818", "U+194E", "U+19D8", "U+1A88",
             "U+1A98", "U+1B58", "U+1BB8", "U+1C48", "U+1C58", "U+A628",
             "U+A8D8", "U+A908", "U+A9D8", "U+A9F8", "U+AA58", "U+ABF8",
             "U+FF18", "U+104A8", "U+10D38", "U+1106E", "U+110F8",
             "U+1113E", "U+111D8", "U+112F8", "U+11458", "U+114D8",
             "U+11658", "U+116C8", "U+11738", "U+118E8", "U+11958",
             "U+11C58", "U+11D58", "U+11DA8", "U+16A68", "U+16AC8",
             "U+16B58", "U+1D7D6", "U+1D7E0", "U+1D7EA", "U+1D7F4",
             "U+1D7FE", "U+1E148", "U+1E2F8", "U+1E958", "U+1FBF8" }
      [] v = 9 ->
           { "9", "U+0669", "U+06F9", "U+07C9", "U+096F", "U+09EF",
             "U+0A6F", "U+0AEF", "U+0B6F", "U+0BEF", "U+0C6F", "U+0CEF",
             "U+0D6F", "U+0DEF", "U+0E59", "U+0ED9", "U+0F29", "U+1049",
             "U+1099", "U+17E9", "U+1819", "U+194F", "U+19D9", "U+1A89",
             "U+1A99", "U+1B59", "U+1BB9", "U+1C49", "U+1C59", "U+A629",
             "U+A8D9", "U+A909", "U+A9D9", "U+A9F9", "U+AA59", "U+ABF9",
             "U+FF19", "U+104A9", "U+10D39", "U+1106F", "U+110F9",
             "U+1113F", "U+111D9", "U+112F9", "U+11459", "U+114D9",
             "U+11659", "U+116C9", "U+11739", "U+118E9", "U+11959",
             "U+11C59", "U+11D59", "U+11DA9", "U+16A69", "U+16AC9",
             "U+16B59", "U+1D7D7", "U+1D7E1", "U+1D7EB", "U+1D7F5",
             "U+1D7FF", "U+1E149", "U+1E2F9", "U+1E959", "U+1FBF9" }

Digits == UNION {DigitsOf(v) : v \in 0..9}

DigitValue(c) == CHOOSE v \in 0..9 : c \in DigitsOf(v)

RECURSIVE LStrip(_)
LStrip(chars) ==
    IF chars # <<>> /\ Head(chars) \in Whitespace THEN LStrip(Tail(chars)) ELSE chars

RECURSIVE RStrip(_)
RStrip(chars) ==
    IF chars # <<>> /\ chars[Len(chars)] \in Whitespace
    THEN RStrip(SubSeq(chars, 1, Len(chars) - 1)) ELSE chars

Unsigned(chars) ==
    IF chars # <<>> /\ Head(chars) \in {"+", "-"} THEN Tail(chars) ELSE chars

(* The value of digits that single underscores may separate. *)
RECURSIVE DecimalValue(_)
DecimalValue(chars) ==
    IF chars = <<>> THEN 0
    ELSE IF chars[Len(chars)] = "_" THEN DecimalValue(SubSeq(chars, 1, Len(chars) - 1))
    ELSE 10 * DecimalValue(SubSeq(chars, 1, Len(chars) - 1)) + DigitValue(chars[Len(chars)])

(* int(text): whitespace around the number is dropped, one sign may lead,
   the rest is one or more decimal digits, between two of which a single
   underscore may stand; anything else raises ValueError. *)
IntParses(chars) ==
    LET body == Unsigned(RStrip(LStrip(chars)))
    IN /\ body # <<>>
       /\ \A k \in 1..Len(body) :
             \/ body[k] \in Digits
             \/ /\ body[k] = "_"
                /\ 1 < k /\ k < Len(body)
                /\ body[k - 1] \in Digits /\ body[k + 1] \in Digits

IntOf(chars) ==
    LET stripped == RStrip(LStrip(chars))
        magnitude == DecimalValue(Unsigned(stripped))
    IN IF Head(stripped) = "-" THEN 0 - magnitude ELSE magnitude

DefaultPort == 8080

(* The debug argument __main__ gives app.run. *)
DebugArgumentOmitted == "None"

DebugArgument == "False"

(* The values of FLASK_DEBUG that leave debugging off. *)
FalsyWords == {<<"0">>, <<"f", "a", "l", "s", "e">>, <<"n", "o">>}

(* For each character of the falsy words, the characters str.lower() turns
   into it: itself and, for a letter, its ASCII capital. *)
LowersTo ==
    [c \in {"0", "f", "a", "l", "s", "e", "n", "o"} |->
        CASE c = "0" -> {"0"}
          [] c = "f" -> {"f", "F"}
          [] c = "a" -> {"a", "A"}
          [] c = "l" -> {"l", "L"}
          [] c = "s" -> {"s", "S"}
          [] c = "e" -> {"e", "E"}
          [] c = "n" -> {"n", "N"}
          [] c = "o" -> {"o", "O"}]

(* val.lower() in words, for words over the characters of the falsy words. *)
LowerIn(val, words) ==
    \E w \in words :
        /\ Len(w) = Len(val)
        /\ \A k \in 1..Len(w) : val[k] \in LowersTo[w[k]]

(* flask.helpers.get_debug_flag: FLASK_DEBUG set to anything but the empty
   text, 0, false or no, in either case, turns debugging on. *)
get_debug_flag ==
    /\ "FLASK_DEBUG" \in DOMAIN environ
    /\ environ["FLASK_DEBUG"] # <<>>
    /\ ~LowerIn(environ["FLASK_DEBUG"], FalsyWords)

(* Flask.run: a debug argument that is given overrides the environment. *)
RunDebug(argument) ==
    IF argument = "None" THEN get_debug_flag ELSE argument = "True"

PortChars == {"8", "0", " ", "-", "a", "_", "U+0009", "U+001C", "U+0663"}

RECURSIVE CharSeqs(_)
CharSeqs(n) ==
    IF n = 0 THEN {<<>>}
    ELSE CharSeqs(n - 1) \cup {Append(cs, c) : cs \in {x \in CharSeqs(n - 1) : Len(x) = n - 1}, c \in PortChars}

MainEnvirons ==
    LET ports == {[PORT |-> cs] : cs \in CharSeqs(MaxPortLen)} \cup {<<>>}
        debugs == {[FLASK_DEBUG |-> <<"1">>], [FLASK_DEBUG |-> <<"0">>],
                   [FLASK_DEBUG |-> <<"N", "o">>], <<>>}
        clis == {[FLASK_RUN_FROM_CLI |-> <<"t", "r", "u", "e">>], <<>>}
    IN {p @@ d @@ c : p \in ports, d \in debugs, c \in clis}

(* The ports the operating system may give a socket bound to port 0: the
   range of local ports (net.ipv4.ip_local_port_range, 32768 to 60999
   unless the host is configured otherwise). *)
OsChosenPorts == 32768..60999

(* app.run(host, port, debug), the outcomes it may have: a call made under
   the flask command is ignored; a port outside 0..65535 ends the process;
   otherwise the socket is bound, which the operating system may refuse
   (the port is in use or reserved) and the process ends, or the server
   runs: on the port asked for, and on a port the operating system chooses
   when port 0 is asked for.  Of a server that does not run the record
   keeps no host and no port. *)
app_run(host, port, debug) ==
    IF "FLASK_RUN_FROM_CLI" \in DOMAIN environ
       /\ environ["FLASK_RUN_FROM_CLI"] = <<"t", "r", "u", "e">>
    THEN {[state |-> "ignored", host |-> "", port |-> 0, debug |-> FALSE]}
    ELSE LET refused == [state |-> "crashed", host |-> "", port |-> 0,
                         debug |-> RunDebug(debug)]
             bound == IF port = 0 THEN OsChosenPorts ELSE {port}
         IN IF port \notin 0..65535 THEN {refused}
            ELSE {refused} \cup {[state |-> "running", host |-> host, port |-> b,
                                  debug |-> RunDebug(debug)] : b \in bound}

InitMain ==
    /\ environ \in MainEnvirons
    /\ requests = <<>>
    /\ log = <<>>
    /\ server = NotStarted
    /\ probe = NoProbe

(* The __main__ block: the port is read and converted (a text int()
   rejects ends the process with ValueError), then app.run. *)
Main ==
    /\ server.state = "not started"
    /\ server' \in
          IF "PORT" \in DOMAIN environ /\ ~IntParses(environ["PORT"])
          THEN {[state |-> "crashed", host |-> "", port |-> 0, debug |-> FALSE]}
          ELSE LET port == IF "PORT" \in DOMAIN environ
                           THEN IntOf(environ["PORT"]) ELSE DefaultPort
               IN app_run("0.0.0.0", port, DebugArgument)
    /\ UNCHANGED <<environ, requests, log, probe>>

NextMain == Main

SpecMain == InitMain /\ [][NextMain]_vars

(***************************************************************************)
(* SpecInj: add_security_headers applied to a response that may already    *)
(* hold any headers, then applied to its own result.                       *)
(***************************************************************************)
ProbeEntries ==
    { <<"Content-Type", "application/json">>,
      <<"Allow", "GET">>,
      <<"X-Frame-Options", "SAMEORIGIN">>,
      <<"x-frame-options", "ALLOW-FROM">>,
      <<"Strict-Transport-Security", "max-age=0">> }

RECURSIVE HeaderLists(_)
HeaderLists(n) ==
    IF n = 0 THEN {<<>>}
    ELSE HeaderLists(n - 1) \cup {Append(hs, e) : hs \in {x \in HeaderLists(n - 1) : Len(x) = n - 1}, e \in ProbeEntries}

ProbeResponses ==
    { [status |-> st, headers |-> hs, body |-> b] :
        st \in {200, 404},
        hs \in HeaderLists(MaxHeaders),
        b \in {[kind |-> "json", value |-> [error |-> "Not found", status |-> 404]],
               [kind |-> "empty", value |-> ""]} }

InitInj ==
    /\ environ = <<>>
    /\ requests = <<>>
    /\ log = <<>>
    /\ server = NotStarted
    /\ \E r \in ProbeResponses :
          probe = [stage |-> "given", given |-> r, once |-> NoResponse, twice |-> NoResponse]

Inject ==
    /\ probe.stage = "given"
    /\ probe' = [probe EXCEPT !.stage = "once", !.once = add_security_headers(probe.given)]
    /\ UNCHANGED <<environ, requests, log, server>>

InjectAgain ==
    /\ probe.stage = "once"
    /\ probe' = [probe EXCEPT !.stage = "twice", !.twice = add_security_headers(probe.once)]
    /\ UNCHANGED <<environ, requests, log, server>>

NextInj == Inject \/ InjectAgain

SpecInj == InitInj /\ [][NextInj]_vars

(***************************************************************************)
(* Properties.                                                             *)
(***************************************************************************)
Handled == {i \in 1..Len(requests) : requests[i].pc = "done"}

DefinedPaths == {<<"health">>, <<"ready">>, <<"">>, <<"api", "data">>}

SecurityHeaders ==
    { <<"X-Content-Type-Options", "nosniff">>,
      <<"X-Frame-Options", "DENY">>,
      <<"X-XSS-Protection", "1; mode=block">>,
      <<"Strict-Transport-Security", "max-age=31536000; includeSubDomains">> }

NotFoundBody == [kind |-> "json", value |-> [error |-> "Not found", status |-> 404]]

InternalErrorBody ==
    [kind |-> "json", value |-> [error |-> "Internal server error", status |-> 500]]

(* The entries of a header list under a name, whatever its case. *)
EntriesOf(list, name) == {k \in 1..Len(list) : lower(list[k][1]) = lower(name)}

CarriesExactly(list, name, value) ==
    /\ EntriesOf(list, name) # {}
    /\ \A k \in EntriesOf(list, name) : list[k] = <<name, value>>

(* C1: every response the service sends, whatever the method, the path and
   the status (200, 404, 405, 308, 500), carries the four security headers
   with exactly their fixed values. *)
C1_SecurityHeadersOnEveryResponse ==
    \A i \in Handled : \A h \in SecurityHeaders :
        CarriesExactly(requests[i].response.headers, h[1], h[2])

(* C1 witness: a 405 from the router and a 500 from the error handler have
   both been sent. *)
C1_Witness ==
    \E i, j \in Handled :
        /\ requests[i].response.status = 405
        /\ requests[j].response.status = 500

(* C2 as stated: every request other than GET on one of the four defined
   paths yields 404 with the body {error: 'Not found', status: 404}. *)
C2_AnyOtherRequestIs404 ==
    \A i \in Handled :
        (requests[i].method # "GET" \/ requests[i].path \notin DefinedPaths)
            => /\ requests[i].response.status = 404
               /\ requests[i].response.body = NotFoundBody

(* C3: a GET of each defined route whose view returns yields 200 with the
   body of the route table and no other field; the data of /api/data is
   the three items in order. *)
C3_RouteBodies ==
    \A i \in Handled :
        LET r == requests[i]
            v == r.response.body.value
        IN (r.method = "GET" /\ r.path \in DefinedPaths /\ r.fault = NoFault)
            => /\ r.response.status = 200
               /\ r.response.body.kind = "json"
               /\ r.path = <<"health">> =>
                     /\ DOMAIN v = {"status", "timestamp", "version"}
                     /\ v.status = "healthy"
               /\ r.path = <<"ready">> =>
                     /\ DOMAIN v = {"status", "timestamp"}
                     /\ v.status = "ready"
               /\ r.path = <<"">> =>
                     /\ DOMAIN v = {"message", "version", "environment"}
                     /\ v.message = "Secure CI/CD Pipeline Demo"
               /\ r.path = <<"api", "data">> =>
                     /\ DOMAIN v = {"data", "timestamp"}
                     /\ v.data = << [id |-> 1, name |-> "Item 1"],
                                    [id |-> 2, name |-> "Item 2"],
                                    [id |-> 3, name |-> "Item 3"] >>

(* C3 witness: GET /api/data and GET /health have both returned. *)
C3_Witness ==
    \E i, j \in Handled :
        /\ requests[i].method = "GET" /\ requests[i].path = <<"api", "data">>
        /\ requests[i].fault = NoFault
        /\ requests[j].method = "GET" /\ requests[j].path = <<"health">>
        /\ requests[j].fault = NoFault

(* C4: when a view faults the response is 500 with the body
   {error: 'Internal server error', status: 500}, the same for every fault,
   and the log holds a line of error severity with the fault's description. *)
C4_FaultIsGeneric500AndLogged ==
    \A i \in Handled :
        requests[i].fault # NoFault
            => /\ requests[i].response.status = 500
               /\ requests[i].response.body = InternalErrorBody
               /\ \E k \in 1..Len(log) :
                     /\ log[k].req = i
                     /\ log[k].level = "ERROR"
                     /\ log[k].exc = requests[i].fault

(* C4 witness: two requests have faulted with different faults. *)
C4_Witness ==
    \E i, j \in Handled :
        /\ requests[i].fault # NoFault
        /\ requests[j].fault # NoFault
        /\ requests[i].fault # requests[j].fault

(* C5 as stated: every response has a status in {200, 404, 500} and a JSON
   body. *)
C5_OnlyThreeJsonOutcomes ==
    \A i \in Handled :
        /\ requests[i].response.status \in {200, 404, 500}
        /\ requests[i].response.body.kind = "json"

(* C6: the version of /health and of / is APP_VERSION, '1.0.0' when it is
   unset; the environment of / is ENVIRONMENT, 'development' when it is
   unset; /health and / report the same version. *)
C6_VersionAndEnvironment ==
    LET version == IF "APP_VERSION" \in DOMAIN environ
                   THEN environ["APP_VERSION"] ELSE "1.0.0"
        environment == IF "ENVIRONMENT" \in DOMAIN environ
                       THEN environ["ENVIRONMENT"] ELSE "development"
        returned(path) == {i \in Handled : /\ requests[i].method = "GET"
                                           /\ requests[i].path = path
                                           /\ requests[i].fault = NoFault}
    IN /\ \A i \in returned(<<"health">>) :
             requests[i].response.body.value.version = version
       /\ \A i \in returned(<<"">>) :
             /\ requests[i].response.body.value.version = version
             /\ requests[i].response.body.value.environment = environment
       /\ \A i \in returned(<<"health">>), j \in returned(<<"">>) :
             requests[i].response.body.value.version
                 = requests[j].response.body.value.version

(* C6 witness: with ENVIRONMENT set and APP_VERSION unset, /health and /
   have both returned. *)
C6_Witness ==
    /\ DOMAIN environ = {"ENVIRONMENT"}
    /\ \E i, j \in Handled :
        /\ requests[i].method = "GET" /\ requests[i].path = <<"health">>
        /\ requests[i].fault = NoFault
        /\ requests[j].method = "GET" /\ requests[j].path = <<"">>
        /\ requests[j].fault = NoFault

(* C7: whatever came before and whatever runs alongside, two requests with
   the same method and path, handled at the same clock reading under the
   same environment, both returning or both faulting, get the same
   response. *)
C7_SameRequestSameResponse ==
    \A i, j \in Handled :
        (/\ requests[i].method = requests[j].method
         /\ requests[i].path = requests[j].path
         /\ requests[i].at = requests[j].at
         /\ (requests[i].fault = NoFault) = (requests[j].fault = NoFault))
            => requests[i].response = requests[j].response

(* C7 witness: two GET /api/data requests have returned with the same clock
   reading, each after writing its log line. *)
C7_Witness ==
    \E i, j \in Handled :
        /\ i # j
        /\ requests[i].method = "GET" /\ requests[i].path = <<"api", "data">>
        /\ requests[j].method = "GET" /\ requests[j].path = <<"api", "data">>
        /\ requests[i].at = requests[j].at /\ requests[i].at # 0
        /\ Len(log) = 2

(* C8 as stated: once the process has started, the server runs with
   debugging off, on host 0.0.0.0, on the port PORT gives and on 8080
   when PORT is unset. *)
C8_LaunchedOnPortOfEnvironment ==
    server.state # "not started" =>
        /\ server.state = "running"
        /\ server.debug = FALSE
        /\ server.host = "0.0.0.0"
        /\ "PORT" \notin DOMAIN environ => server.port = DefaultPort
        /\ "PORT" \in DOMAIN environ =>
              IntParses(environ["PORT"]) /\ server.port = IntOf(environ["PORT"])

UnderFlaskCommand ==
    /\ "FLASK_RUN_FROM_CLI" \in DOMAIN environ
    /\ environ["FLASK_RUN_FROM_CLI"] = <<"t", "r", "u", "e">>

(* C8 amended: debugging is off whatever the environment holds.  A server
   that runs is on host 0.0.0.0, on 8080 when PORT is unset, on the number
   int() reads in PORT when that is in 1..65535 and on a port of the
   operating system's choice when it is 0.  No server runs when int()
   rejects PORT (the process ends), when the number is outside 0..65535 or
   when FLASK_RUN_FROM_CLI is true (app.run returns at once). *)
C8_DebugOffPortFromEnvironment ==
    LET given == "PORT" \in DOMAIN environ
        port == IF given THEN IntOf(environ["PORT"]) ELSE DefaultPort
        launches == /\ ~UnderFlaskCommand
                    /\ given => IntParses(environ["PORT"]) /\ port \in 0..65535
    IN /\ server.debug = FALSE
       /\ server.state \in {"not started", "running", "crashed", "ignored"}
       /\ server.state = "running" =>
             /\ launches
             /\ server.host = "0.0.0.0"
             /\ port # 0 => server.port = port
             /\ port = 0 => server.port \in 1..65535
             /\ (given /\ environ["PORT"] \in {<<" ", "8", "0">>, <<"8", "_", "0">>,
                                               <<"U+0009", "8", "0">>})
                   => server.port = 80
             /\ (given /\ environ["PORT"] = <<"U+0663", "_", "8">>) => server.port = 38
       /\ server.state = "ignored" => UnderFlaskCommand
       /\ (server.state # "not started" /\ given /\ ~IntParses(environ["PORT"]))
             => server.state = "crashed"
       /\ (server.state # "not started" /\ UnderFlaskCommand)
             => server.state \in {"ignored", "crashed"}
       /\ (given /\ environ["PORT"] \in {<<"U+001C", "8", "0">>, <<"8", "0", "U+001C">>})
             => server.state \in {"not started", "crashed"}

(* C8 witness: the server runs with FLASK_DEBUG=1 and PORT=808 in the
   environment. *)
C8_Witness ==
    /\ server.state = "running"
    /\ "FLASK_DEBUG" \in DOMAIN environ /\ environ["FLASK_DEBUG"] = <<"1">>
    /\ "PORT" \in DOMAIN environ /\ environ["PORT"] = <<"8", "0", "8">>
    /\ server.port = 808

SecurityNames == {lower(h[1]) : h \in SecurityHeaders}

RECURSIVE OtherHeaders(_)
OtherHeaders(list) ==
    IF list = <<>> THEN <<>>
    ELSE IF lower(Head(list)[1]) \in SecurityNames THEN OtherHeaders(Tail(list))
         ELSE <<Head(list)>> \o OtherHeaders(Tail(list))

(* C9: the injector leaves exactly one entry of each security header, with
   the fixed value, whatever the response held under that name; status,
   body and the other headers, in their order, are as before; applying it
   to its own result changes nothing. *)
C9_InjectorSetsFourAndNothingElse ==
    /\ probe.stage \in {"once", "twice"} =>
          /\ probe.once.status = probe.given.status
          /\ probe.once.body = probe.given.body
          /\ OtherHeaders(probe.once.headers) = OtherHeaders(probe.given.headers)
          /\ \A h \in SecurityHeaders :
                /\ Cardinality(EntriesOf(probe.once.headers, h[1])) = 1
                /\ CarriesExactly(probe.once.headers, h[1], h[2])
    /\ probe.stage = "twice" => probe.twice = probe.once

(* C9 witness: the injector has run twice on a response that held two
   X-Frame-Options entries of other values. *)
C9_Witness ==
    /\ probe.stage = "twice"
    /\ Cardinality(EntriesOf(probe.given.headers, "X-Frame-Options")) = 2

DataLines(i) ==
    {k \in 1..Len(log) : /\ log[k].req = i
                         /\ log[k].level = "INFO"
                         /\ log[k].msg = "Data endpoint accessed"}

(* C10: a GET /api/data writes exactly one 'Data endpoint accessed' line,
   at INFO, and the line is in the log before its response exists and
   after; a request for another path writes none; the response of
   /api/data is 200 with the three items whatever the log holds. *)
C10_DataLogLineOncePerDataRequest ==
    \A i \in 1..Len(requests) :
        LET r == requests[i]
        IN /\ (r.method = "GET" /\ r.path = <<"api", "data">>) =>
                /\ r.pc = "logged" =>
                      Cardinality(DataLines(i)) = 1 /\ r.response = NoResponse
                /\ r.pc \in {"excepted", "handling", "done"} =>
                      Cardinality(DataLines(i)) = 1
                /\ (r.pc = "done" /\ r.fault = NoFault) =>
                      /\ r.response.status = 200
                      /\ Len(r.response.body.value.data) = 3
                      /\ r.response.body.value.timestamp = isoformat(r.at)
           /\ r.path # <<"api", "data">> => DataLines(i) = {}

(* C10 witness: a GET /api/data and a GET /health have both returned and
   the log holds one line. *)
C10_Witness ==
    \E i, j \in Handled :
        /\ requests[i].method = "GET" /\ requests[i].path = <<"api", "data">>
        /\ requests[i].fault = NoFault
        /\ requests[j].method = "GET" /\ requests[j].path = <<"health">>
        /\ Len(log) = 1

====
